---------------------------- MODULE Spec2Model ----------------------------
(***************************************************************************)
(* A model of google.cloud.runtimeconfig.variable.Variable: one Variable   *)
(* object (its name and its _properties dict), the remote connection it    *)
(* talks to, and the calls a caller can make on it.                        *)
(*                                                                         *)
(* Python values are tagged records [t, s]: t is the Python type and s the *)
(* content (the code points of a str, the bytes of a bytes object).  A     *)
(* dict is a function from its keys.  A slash-separated path is the        *)
(* sequence of its segments.                                               *)
(***************************************************************************)
EXTENDS Integers, Sequences, FiniteSets, TLC

(***************************************************************************)
(* Bounds of the model.                                                    *)
(***************************************************************************)
\* longest bytes object a caller assigns to .value
MaxLen == 2
\* number of calls made on the variable in one behaviour
MaxCalls == 3

(***************************************************************************)
(* Python values.                                                          *)
(***************************************************************************)
None == [t |-> "None", s |-> <<>>]
True == [t |-> "bool", s |-> <<1>>]
False == [t |-> "bool", s |-> <<0>>]
Str(s) == [t |-> "str", s |-> s]
Bytes(s) == [t |-> "bytes", s |-> s]

EmptyDict == [k \in {} |-> None]
Put(d, k, v) == [x \in DOMAIN d \cup {k} |-> IF x = k THEN v ELSE d[x]]
Pop(d, k) == [x \in DOMAIN d \ {k} |-> d[x]]
DictUpdate(d, e) == [x \in DOMAIN d \cup DOMAIN e |-> IF x \in DOMAIN e THEN e[x] ELSE d[x]]
\* dict.get(k): None when the key is absent
Get(d, k) == IF k \in DOMAIN d THEN d[k] ELSE None

STATE_UNSPECIFIED == Str(<<86>>)
STATE_UPDATED == Str(<<85, 80, 68, 65, 84, 69, 68>>)
STATE_DELETED == Str(<<68, 69, 76, 69, 84, 69, 68>>)

(***************************************************************************)
(* base64, over byte values 0..255 and ASCII codes.                        *)
(***************************************************************************)
\* the ASCII code of the base64 digit for sextet i: A-Z a-z 0-9 + /
B64Char(i) ==
    IF i < 26 THEN 65 + i
    ELSE IF i < 52 THEN 97 + (i - 26)
    ELSE IF i < 62 THEN 48 + (i - 52)
    ELSE IF i = 62 THEN 43 ELSE 47

\* the sextet of ASCII code c, or -1 when c is no base64 digit
B64Sextet(c) ==
    IF c >= 65 /\ c <= 90 THEN c - 65
    ELSE IF c >= 97 /\ c <= 122 THEN c - 97 + 26
    ELSE IF c >= 48 /\ c <= 57 THEN c - 48 + 52
    ELSE IF c = 43 THEN 62
    ELSE IF c = 47 THEN 63 ELSE -1

RECURSIVE B64EncodeBytes(_)
B64EncodeBytes(b) ==
    IF Len(b) = 0 THEN <<>>
    ELSE IF Len(b) = 1 THEN
        << B64Char(b[1] \div 4), B64Char((b[1] % 4) * 16), 61, 61 >>
    ELSE IF Len(b) = 2 THEN
        << B64Char(b[1] \div 4), B64Char((b[1] % 4) * 16 + (b[2] \div 16)),
           B64Char((b[2] % 16) * 4), 61 >>
    ELSE
        << B64Char(b[1] \div 4), B64Char((b[1] % 4) * 16 + (b[2] \div 16)),
           B64Char((b[2] % 16) * 4 + (b[3] \div 64)), B64Char(b[3] % 64) >>
        \o B64EncodeBytes(SubSeq(b, 4, Len(b)))

\* base64.b64encode(v): a bytes result, or TypeError when v is not bytes-like
b64encode(v) ==
    IF v.t = "bytes" THEN [exc |-> "none", ret |-> Bytes(B64EncodeBytes(v.s))]
    ELSE [exc |-> "TypeError", ret |-> None]

\* The non-strict decoder behind base64.b64decode(v): characters outside the
\* alphabet are skipped, a pad that completes a quad ends the input, and a
\* quad left incomplete at the end is an error.
RECURSIVE B64DecodeFrom(_, _, _, _, _, _)
B64DecodeFrom(c, i, quad_pos, leftchar, pads, out) ==
    IF i > Len(c) THEN
        IF quad_pos # 0 THEN [exc |-> "binascii.Error", ret |-> None]
        ELSE [exc |-> "none", ret |-> Bytes(out)]
    ELSE IF c[i] = 61 THEN
        IF quad_pos >= 2 /\ quad_pos + pads + 1 >= 4
        THEN [exc |-> "none", ret |-> Bytes(out)]
        ELSE B64DecodeFrom(c, i + 1, quad_pos, leftchar,
                           IF quad_pos >= 2 THEN pads + 1 ELSE pads, out)
    ELSE IF B64Sextet(c[i]) < 0 THEN
        B64DecodeFrom(c, i + 1, quad_pos, leftchar, pads, out)
    ELSE
        LET x == B64Sextet(c[i]) IN
        CASE quad_pos = 0 -> B64DecodeFrom(c, i + 1, 1, x, 0, out)
          [] quad_pos = 1 ->
                B64DecodeFrom(c, i + 1, 2, x % 16, 0,
                              Append(out, leftchar * 4 + (x \div 16)))
          [] quad_pos = 2 ->
                B64DecodeFrom(c, i + 1, 3, x % 4, 0,
                              Append(out, leftchar * 16 + (x \div 4)))
          [] OTHER ->
                B64DecodeFrom(c, i + 1, 0, 0, 0, Append(out, leftchar * 64 + x))

\* base64.b64decode(v): v is bytes, or an ASCII-only str
b64decode(v) ==
    IF v.t = "str" /\ \E i \in 1..Len(v.s) : v.s[i] > 127
    THEN [exc |-> "ValueError", ret |-> None]
    ELSE B64DecodeFrom(v.s, 1, 0, 0, 0, <<>>)

\* bytes.decode("utf-8") of ASCII-only bytes
decode_utf8(b) == Str(b.s)

(***************************************************************************)
(* The owning config and the names in play.                                *)
(***************************************************************************)
\* config.full_name: projects/p/configs/c
ConfigFullName == <<"projects", "p", "configs", "c">>
\* config.path: /projects/p/configs/c (the empty first segment is the leading slash)
ConfigPath == <<"">> \o ConfigFullName

\* the last segment of projects/P/configs/C/variables/V
variable_name_from_full_name(full) == full[Len(full)]

\* names a caller constructs a Variable with ("" is a missing name)
InitNames == {"", "v1"}
\* variable names the server uses in the resources it returns
ServerNames == {"v1", "v2"}

\* contents a caller assigns / the server holds
ByteVals == {65, 255}
RECURSIVE SeqsUpTo(_, _)
SeqsUpTo(S, n) ==
    IF n = 0 THEN {<<>>}
    ELSE LET shorter == SeqsUpTo(S, n - 1) IN
         shorter \cup {Append(q, x) : q \in {r \in shorter : Len(r) = n - 1}, x \in S}
BytesIn == {Bytes(b) : b \in SeqsUpTo(ByteVals, MaxLen)}
\* binary contents the server holds (it returns them base64-encoded)
ServerBytes == {Bytes(<<>>), Bytes(<<65>>), Bytes(<<255, 255>>)}
TextsIn == {Str(<<120>>), Str(<<121>>)}

(***************************************************************************)
(* The remote connection: api_request returns a decoded variable resource  *)
(* or raises NotFound / Conflict.  A variable resource carries an optional *)
(* name, at most one of text / value (value as a base64 str), and an       *)
(* optional state.                                                         *)
(***************************************************************************)
ResourceNames == {EmptyDict} \cup
    {Put(EmptyDict, "name", ConfigFullName \o <<"variables", v>>) : v \in ServerNames}
ResourceContents == {EmptyDict}
    \cup {Put(EmptyDict, "text", t) : t \in TextsIn}
    \cup {Put(EmptyDict, "value", decode_utf8(b64encode(b).ret)) : b \in ServerBytes}
ResourceStates == {EmptyDict, Put(EmptyDict, "state", STATE_UPDATED)}
Resources ==
    {DictUpdate(DictUpdate(n, c), st) :
        n \in ResourceNames, c \in ResourceContents, st \in ResourceStates}

NoAnswer == [kind |-> "none", resp |-> EmptyDict]
Answers == {[kind |-> "ok", resp |-> r] : r \in Resources}
    \cup {[kind |-> "NotFound", resp |-> EmptyDict],
          [kind |-> "Conflict", resp |-> EmptyDict]}

Request(method, url, data, query_params) ==
    [method |-> method, path |-> url, data |-> data, query_params |-> query_params]

(***************************************************************************)
(* The Variable object.                                                    *)
(***************************************************************************)
VARIABLES
    name,        \* self.name
    props,       \* self._properties
    requested,   \* number of api_request calls the connection has received
    calls,       \* number of calls made on the variable so far
    last         \* the latest call: what was called, with what, and its outcome

vars == <<name, props, requested, calls, last>>

Outcome(op, arg, ret, exc, answer, sent) ==
    [op |-> op, arg |-> arg, ret |-> ret, exc |-> exc, answer |-> answer, sent |-> sent]

\* Variable.full_name
full_name(n) ==
    IF n = "" THEN [exc |-> "ValueError", ret |-> <<>>]
    ELSE [exc |-> "none", ret |-> ConfigFullName \o <<"variables", n>>]

\* Variable.path
path(n) ==
    LET fn == full_name(n) IN
    IF fn.exc # "none" THEN fn ELSE [exc |-> "none", ret |-> <<"">> \o fn.ret]

\* Variable.text (getter)
text_getter(p) == Get(p, "text")

\* a text setter that stores before it checks
text_setter_StoresFirst(p, value) ==
    [exc |-> IF "value" \in DOMAIN p
             THEN "Error: Value and text are mutually exclusive." ELSE "none",
     props |-> Put(p, "text", value)]

\* Variable.text (setter)
text_setter(p, value) ==
    IF "value" \in DOMAIN p
    THEN [exc |-> "Error: Value and text are mutually exclusive.", props |-> p]
    ELSE [exc |-> "none", props |-> Put(p, "text", value)]

\* Variable.value (getter)
value_getter(p) ==
    LET value == Get(p, "value") IN
    IF value # None THEN b64decode(value) ELSE [exc |-> "none", ret |-> value]

\* a value setter without the exclusivity check
value_setter_Unguarded(p, value) ==
    [exc |-> "none", props |-> Put(p, "value", value)]

\* Variable.value (setter)
value_setter(p, value) ==
    IF "text" \in DOMAIN p
    THEN [exc |-> "Error: Value and text are mutually exclusive.", props |-> p]
    ELSE [exc |-> "none", props |-> Put(p, "value", value)]

\* Variable.state
state(p) == IF "state" \in DOMAIN p THEN p["state"] ELSE STATE_UNSPECIFIED

\* absorbing a resource into the dict without clearing it first
_set_properties_Merges(n, p, resource) ==
    [name |-> IF "name" \in DOMAIN resource
              THEN variable_name_from_full_name(resource["name"])
              ELSE n,
     props |-> DictUpdate(p, Pop(resource, "name"))]

\* Variable._set_properties
_set_properties(n, p, resource) ==
    LET cleared == EmptyDict
        cleaned == Pop(resource, "name")
    IN  [name |-> IF "name" \in DOMAIN resource
                  THEN variable_name_from_full_name(resource["name"])
                  ELSE n,
         props |-> DictUpdate(cleared, cleaned)]

\* a payload builder that sends the bare name when nothing is set
_get_payload_NameOnly(n, p) ==
    LET fn == full_name(n)
        data == Put(EmptyDict, "name", fn.ret)
    IN
    IF fn.exc # "none" THEN [exc |-> fn.exc, data |-> EmptyDict]
    ELSE IF "text" \in DOMAIN p THEN
        [exc |-> "none", data |-> Put(data, "text", p["text"])]
    ELSE IF "value" \in DOMAIN p THEN
        LET enc == b64encode(p["value"]) IN
        IF enc.exc # "none" THEN [exc |-> enc.exc, data |-> EmptyDict]
        ELSE [exc |-> "none", data |-> Put(data, "value", decode_utf8(enc.ret))]
    ELSE [exc |-> "none", data |-> data]

\* Variable._get_payload
_get_payload(n, p) ==
    LET fn == full_name(n)
        data == Put(EmptyDict, "name", fn.ret)
    IN
    IF fn.exc # "none" THEN [exc |-> fn.exc, data |-> EmptyDict]
    ELSE IF "text" \in DOMAIN p THEN
        [exc |-> "none", data |-> Put(data, "text", p["text"])]
    ELSE IF "value" \in DOMAIN p THEN
        LET enc == b64encode(p["value"]) IN
        IF enc.exc # "none" THEN [exc |-> enc.exc, data |-> EmptyDict]
        ELSE [exc |-> "none", data |-> Put(data, "value", decode_utf8(enc.ret))]
    ELSE [exc |-> "Error: No text or value set.", data |-> EmptyDict]

\* what a call leaves behind when it raises exc after sending sent
Raised(n, p, exc, sent) ==
    [ret |-> None, exc |-> exc, name |-> n, props |-> p, sent |-> sent]
\* what a call leaves behind when it returns ret
Returned(n, p, ret, sent) ==
    [ret |-> ret, exc |-> "none", name |-> n, props |-> p, sent |-> sent]

\* a create that catches NotFound where it should catch Conflict
create_CatchesNotFound(n, p, a) ==
    LET payload == _get_payload(n, p)
        req == Request("POST", ConfigPath \o <<"variables">>, payload.data, EmptyDict)
    IN
    IF payload.exc # "none" THEN Raised(n, p, payload.exc, <<>>)
    ELSE IF a.kind = "NotFound" THEN Returned(n, p, False, <<req>>)
    ELSE IF a.kind # "ok" THEN Raised(n, p, a.kind, <<req>>)
    ELSE LET s == _set_properties(n, p, a.resp) IN
         Returned(s.name, s.props, True, <<req>>)

\* Variable.create, the connection answering a
create(n, p, a) ==
    LET payload == _get_payload(n, p)
        req == Request("POST", ConfigPath \o <<"variables">>, payload.data, EmptyDict)
    IN
    IF payload.exc # "none" THEN Raised(n, p, payload.exc, <<>>)
    ELSE IF a.kind = "Conflict" THEN Returned(n, p, False, <<req>>)
    ELSE IF a.kind # "ok" THEN Raised(n, p, a.kind, <<req>>)
    ELSE LET s == _set_properties(n, p, a.resp) IN
         Returned(s.name, s.props, True, <<req>>)

\* Variable.update, the connection answering a
update(n, p, a) ==
    LET payload == _get_payload(n, p)
        req == Request("PUT", path(n).ret, payload.data, EmptyDict)
    IN
    IF payload.exc # "none" THEN Raised(n, p, payload.exc, <<>>)
    ELSE IF a.kind = "NotFound" THEN Returned(n, p, False, <<req>>)
    ELSE IF a.kind # "ok" THEN Raised(n, p, a.kind, <<req>>)
    ELSE LET s == _set_properties(n, p, a.resp) IN
         Returned(s.name, s.props, True, <<req>>)

\* an exists that absorbs the response it gets
exists_Absorbs(n, p, a) ==
    LET pth == path(n)
        req == Request("GET", pth.ret, EmptyDict, Put(EmptyDict, "fields", "name"))
    IN
    IF pth.exc # "none" THEN Raised(n, p, pth.exc, <<>>)
    ELSE IF a.kind = "NotFound" THEN Returned(n, p, False, <<req>>)
    ELSE IF a.kind # "ok" THEN Raised(n, p, a.kind, <<req>>)
    ELSE LET s == _set_properties(n, p, a.resp) IN
         Returned(s.name, s.props, True, <<req>>)

\* Variable.exists, the connection answering a
exists(n, p, a) ==
    LET pth == path(n)
        req == Request("GET", pth.ret, EmptyDict, Put(EmptyDict, "fields", "name"))
    IN
    IF pth.exc # "none" THEN Raised(n, p, pth.exc, <<>>)
    ELSE IF a.kind = "NotFound" THEN Returned(n, p, False, <<req>>)
    ELSE IF a.kind # "ok" THEN Raised(n, p, a.kind, <<req>>)
    ELSE Returned(n, p, True, <<req>>)

\* a reload that turns NotFound into a False result, as exists does
reload_SwallowsNotFound(n, p, a) ==
    LET pth == path(n)
        req == Request("GET", pth.ret, EmptyDict, EmptyDict)
    IN
    IF pth.exc # "none" THEN Raised(n, p, pth.exc, <<>>)
    ELSE IF a.kind = "NotFound" THEN Returned(n, p, False, <<req>>)
    ELSE IF a.kind # "ok" THEN Raised(n, p, a.kind, <<req>>)
    ELSE LET s == _set_properties(n, p, a.resp) IN
         Returned(s.name, s.props, None, <<req>>)

\* Variable.reload, the connection answering a
reload(n, p, a) ==
    LET pth == path(n)
        req == Request("GET", pth.ret, EmptyDict, EmptyDict)
    IN
    IF pth.exc # "none" THEN Raised(n, p, pth.exc, <<>>)
    ELSE IF a.kind # "ok" THEN Raised(n, p, a.kind, <<req>>)
    ELSE LET s == _set_properties(n, p, a.resp) IN
         Returned(s.name, s.props, None, <<req>>)

(***************************************************************************)
(* The calls a caller makes.                                               *)
(***************************************************************************)
\* Variable.__init__
Init ==
    /\ name \in InitNames
    /\ props = EmptyDict
    /\ requested = 0
    /\ calls = 0
    /\ last = Outcome("__init__", None, None, "none", NoAnswer, <<>>)

\* a local accessor call: no request, the name is untouched
Local(op, arg, r, ret) ==
    /\ calls < MaxCalls
    /\ calls' = calls + 1
    /\ name' = name
    /\ props' = r.props
    /\ requested' = requested
    /\ last' = Outcome(op, arg, ret, r.exc, NoAnswer, <<>>)

\* a remote call: the answer is consumed only if a request went out
Remote(op, r, a) ==
    /\ calls < MaxCalls
    /\ calls' = calls + 1
    /\ name' = r.name
    /\ props' = r.props
    /\ requested' = requested + Len(r.sent)
    /\ last' = Outcome(op, None, r.ret, r.exc,
                       IF r.sent = <<>> THEN NoAnswer ELSE a, r.sent)

SetText == \E v \in TextsIn : Local("text.setter", v, text_setter(props, v), None)

SetValue == \E v \in BytesIn : Local("value.setter", v, value_setter(props, v), None)

GetText ==
    Local("text", None, [exc |-> "none", props |-> props], text_getter(props))

GetValue ==
    LET r == value_getter(props) IN
    Local("value", None, [exc |-> r.exc, props |-> props], r.ret)

Create == \E a \in Answers : Remote("create", create(name, props, a), a)

Update == \E a \in Answers : Remote("update", update(name, props, a), a)

Exists == \E a \in Answers : Remote("exists", exists(name, props, a), a)

Reload == \E a \in Answers : Remote("reload", reload(name, props, a), a)

Next ==
    \/ SetText
    \/ SetValue
    \/ GetText
    \/ GetValue
    \/ Create
    \/ Update
    \/ Exists
    \/ Reload

Spec == Init /\ [][Next]_vars

(***************************************************************************)
(* Properties.                                                             *)
(***************************************************************************)
ConflictingFields == "Error: Value and text are mutually exclusive."
MissingPayload == "Error: No text or value set."
RemoteOps == {"create", "update", "exists", "reload"}

\* C1: in every reachable state the property mapping never holds both a
\* text key and a value key.
C1_TextValueExclusive == ~("text" \in DOMAIN props /\ "value" \in DOMAIN props)

\* C1 witness: the value setter was called on a mapping that holds text.
C1_Witness ==
    /\ last.op = "value.setter"
    /\ "text" \in DOMAIN props
    /\ calls >= 2

\* C2: after value is set to B on a variable with no text, reading value
\* returns B unchanged.
C2_ValueRoundTrip ==
    (last.op = "value.setter" /\ last.exc = "none")
        => value_getter(props) = [exc |-> "none", ret |-> last.arg]

\* C3: setting text while a value key is present, or value while a text key
\* is present, fails with the conflicting-fields error, sends no request and
\* leaves the name and the whole property mapping as they were.
C3_ConflictLeavesStateAlone ==
    [][ ( \/ (last'.op = "text.setter" /\ "value" \in DOMAIN props)
          \/ (last'.op = "value.setter" /\ "text" \in DOMAIN props) )
        => /\ last'.exc = ConflictingFields
           /\ last'.sent = <<>>
           /\ requested' = requested
           /\ name' = name
           /\ props' = props ]_vars

\* C3 witness: a text assignment refused on a mapping that holds a value.
C3_Witness ==
    /\ last.op = "text.setter"
    /\ last.exc = ConflictingFields
    /\ "value" \in DOMAIN props

\* C4: a create answered with conflict, and an update answered with
\* not-found, return False without raising and leave the name and the
\* property mapping as they were.
C4_RefusedWriteLeavesStateAlone ==
    [][ ( \/ (last'.op = "create" /\ last'.answer.kind = "Conflict")
          \/ (last'.op = "update" /\ last'.answer.kind = "NotFound") )
        => /\ last'.ret = False
           /\ last'.exc = "none"
           /\ name' = name
           /\ props' = props ]_vars

\* C4 witness: a create of a populated variable answered with conflict.
C4_Witness ==
    /\ last.op = "create"
    /\ last.answer.kind = "Conflict"
    /\ last.ret = False
    /\ props # EmptyDict

\* C5: after every successful create, update or reload the property mapping
\* is exactly the server response without its name key.
C5_ResponseReplacesProperties ==
    (last.op \in {"create", "update", "reload"} /\ last.exc = "none"
        /\ last.answer.kind = "ok")
        => props = Pop(last.answer.resp, "name")

\* C5 witness: an update that sent a value was answered with a resource
\* holding no value, and no value is held afterwards.
C5_Witness ==
    /\ last.op = "update"
    /\ last.ret = True
    /\ "value" \in DOMAIN last.sent[1].data
    /\ "value" \notin DOMAIN last.answer.resp
    /\ "value" \notin DOMAIN props

\* C6: exists returns True when the GET succeeds and False on not-found, and
\* in both outcomes leaves the name and the property mapping unchanged.
C6_ExistsIsReadOnly ==
    [][ (last'.op = "exists" /\ last'.answer.kind \in {"ok", "NotFound"})
        => /\ last'.ret = (IF last'.answer.kind = "ok" THEN True ELSE False)
           /\ last'.exc = "none"
           /\ name' = name
           /\ props' = props ]_vars

\* C6 witness: exists returned True on a response whose body differs from
\* what the variable holds.
C6_Witness ==
    /\ last.op = "exists"
    /\ last.ret = True
    /\ "text" \in DOMAIN last.answer.resp
    /\ "name" \in DOMAIN last.answer.resp
    /\ "value" \in DOMAIN props

\* C7: a reload answered with not-found raises NotFound to the caller and
\* leaves the name and the property mapping as they were.
C7_ReloadPropagatesNotFound ==
    [][ (last'.op = "reload" /\ last'.answer.kind = "NotFound")
        => /\ last'.exc = "NotFound"
           /\ last'.ret = None
           /\ name' = name
           /\ props' = props ]_vars

\* C7 witness: a reload of a populated variable answered with not-found.
C7_Witness ==
    /\ last.op = "reload"
    /\ last.answer.kind = "NotFound"
    /\ last.exc = "NotFound"
    /\ props # EmptyDict

\* C8 as stated: every create, update, exists or reload issues exactly one
\* request, whatever the state of the variable.
C8_ExactlyOneRequest ==
    [][ last'.op \in RemoteOps => requested' = requested + 1 ]_vars

\* the payload of create / update can be built in the current state
PayloadBuildable ==
    /\ name # ""
    /\ \/ "text" \in DOMAIN props
       \/ ("value" \in DOMAIN props /\ props["value"].t = "bytes")

\* C8 amended: exists and reload issue exactly one request when the name is
\* not empty; create and update issue exactly one when the payload can be
\* built; otherwise the call fails before any request and issues none.
C8_OneRequestUnlessLocalFailure ==
    [][ /\ last'.op \in {"create", "update"}
            => /\ requested' = requested + (IF PayloadBuildable THEN 1 ELSE 0)
               /\ Len(last'.sent) = requested' - requested
        /\ last'.op \in {"exists", "reload"}
            => /\ requested' = requested + (IF name # "" THEN 1 ELSE 0)
               /\ Len(last'.sent) = requested' - requested ]_vars

\* C8 witness: a create on a variable with neither text nor value failed
\* with the missing-payload error and no request went out.
C8_Witness ==
    /\ last.op = "create"
    /\ last.exc = MissingPayload
    /\ last.sent = <<>>
    /\ requested = 0

\* C9: the payload carries the full name and exactly one of text / value:
\* text verbatim iff a text key is held, otherwise value iff a value key is
\* held; with neither the build fails with the missing-payload error.
C9_PayloadShape ==
    name # "" =>
        LET r == _get_payload(name, props) IN
        IF "text" \in DOMAIN props THEN
            /\ r.exc = "none"
            /\ r.data = Put(Put(EmptyDict, "name", full_name(name).ret),
                            "text", props["text"])
        ELSE IF "value" \in DOMAIN props THEN
            /\ r.exc = "none"
            /\ DOMAIN r.data = {"name", "value"}
            /\ r.data["name"] = full_name(name).ret
        ELSE
            /\ r.exc = MissingPayload
            /\ r.data = EmptyDict

\* C10: whenever a value key is held, reading value gives the base64
\* decoding of the value field of the payload create / update would send.
C10_ReadMatchesPayload ==
    (name # "" /\ "value" \in DOMAIN props) =>
        LET r == _get_payload(name, props) IN
        /\ r.exc = "none"
        /\ value_getter(props) = b64decode(r.data["value"])
=============================================================================
